---- MODULE Spec2Model ----
(***************************************************************************)
(* Model of the chat screen (ChatbotScreen.tsx) and of the API wrapper     *)
(* (apiBilly.ts) of BoardAiMovil.                                          *)
(*                                                                         *)
(* Strings are sequences of tokens: a user input is a sequence of          *)
(* characters, a fixed message of the source is a one-token sequence and a *)
(* template literal is the concatenation of its parts.  An optional value  *)
(* (undefined in the source) is None, a present value v is Some(v).        *)
(* One step of the model is one JavaScript task: an event handler or the   *)
(* continuation of an await, run to completion.                            *)
(***************************************************************************)
EXTENDS Integers, Sequences, FiniteSets, TLC

VARIABLES
  messages,           \* useState<ChatMessage[]>            ChatbotScreen.tsx:32
  inputText,          \* useState('')                        ChatbotScreen.tsx:45
  isLoading,          \* useState(false)                     ChatbotScreen.tsx:46
  isServerConnected,  \* useState<boolean | null>(null)      ChatbotScreen.tsx:47
  currentPDF,         \* useState<{...} | null>(null)        ChatbotScreen.tsx:48
  uploadingPDF,       \* useState(false)                     ChatbotScreen.tsx:55
  modal,              \* the modal dialog on screen: an Alert or the document picker
  pickConn,           \* isServerConnected as captured by the closure of the running pickPDF
  healthReq,          \* the checkHealth call of the mount effect is awaited
  chatReq,            \* the call awaited by the running sendMessage, if any
  uploadReq,          \* the call awaited by the running uploadPDF, if any
  clearReqs,          \* number of clearHistory calls awaited by clearChat.onPress
  ev,                 \* the task that ran last: handler, branch taken, call issued
  uploaded,           \* history: an upload has succeeded and no clearPDF or clearChat
                      \* has taken effect since
  appended            \* history: messages appended so far by the tasks of the text
                      \* submission or upload under way, or of the one that ended last

vars == <<messages, inputText, isLoading, isServerConnected, currentPDF,
          uploadingPDF, modal, pickConn, healthReq, chatReq, uploadReq,
          clearReqs, ev, uploaded, appended>>

----------------------------------------------------------------------------
(* Bounds of the exploration *)

\* longest transcript: a user action is taken only if the messages it and the
\* operations under way can append still fit
MaxMessages == 6
\* clearHistory calls that may be awaited at the same time
MaxClearReqs == 1
\* Date.now() runs from 0, the millisecond of the mount, to MaxNow
MaxNow == 1
\* the numbers a double can tell apart within one millisecond: 4096 for the
\* Date.now() of these years, which lies between 2^40 and 2^41
Buckets == 2
\* longest transcript of the specification of the ids
MaxIdMessages == 4

----------------------------------------------------------------------------
(* Values *)

None == <<>>
Some(v) == <<v>>

\* JavaScript truthiness of an optional string, and of an optional number
TruthyStr(o) == o # None /\ o[1] # <<>>
TruthyNum(o) == o # None /\ o[1] # 0

IsWhite(c) == c = " "

RECURSIVE TrimStart(_)
TrimStart(s) ==
  IF s = <<>> THEN <<>>
  ELSE IF IsWhite(Head(s)) THEN TrimStart(Tail(s)) ELSE s

RECURSIVE TrimEnd(_)
TrimEnd(s) ==
  IF s = <<>> THEN <<>>
  ELSE IF IsWhite(s[Len(s)]) THEN TrimEnd(SubSeq(s, 1, Len(s) - 1)) ELSE s

\* String.prototype.trim
Trim(s) == TrimEnd(TrimStart(s))

\* String.prototype.includes
Includes(s, sub) ==
  \E i \in 1..(Len(s) - Len(sub) + 1) : SubSeq(s, i, i + Len(sub) - 1) = sub

\* what the user can type into the input field
Inputs == { <<" ">>, <<" ", "a">> }

----------------------------------------------------------------------------
(* apiBilly.ts: the wrapper around the HTTP client *)

\* interface ApiResponse, the fields the screen reads
ApiResponse(success, response, analysis, preview, pages, size_kb) ==
  [success |-> success, response |-> response, analysis |-> analysis,
   preview |-> preview, pages |-> pages, size_kb |-> size_kb]

NoData == ApiResponse(FALSE, None, None, None, None, None)

\* the error axios rejects with: error.message, error.response?.status,
\* error.response?.data?.detail
AxiosError(message, status, detail) ==
  [message |-> message, status |-> status, detail |-> detail]

NoError == AxiosError(<<>>, None, None)

\* outcome of a request of the HTTP client: resolved with data, or rejected
Resolved(data) == [ok |-> TRUE, data |-> data, error |-> NoError]
Rejected(error) == [ok |-> FALSE, data |-> NoData, error |-> error]

\* outcome of a method of the wrapper: the data returned, or the message of
\* the Error thrown
Returned(data) == [threw |-> FALSE, data |-> data, message |-> <<>>]
Threw(message) == [threw |-> TRUE, data |-> NoData, message |-> message]

NetworkError == AxiosError(<<"Network", "Error">>, None, None)
TimeoutError(ms) == AxiosError(<<"timeout", "of", ms, "exceeded">>, None, None)
HttpError(status, detail) ==
  AxiosError(<<"Request", "failed", "with", "status", "code", ToString(status)>>,
             Some(status), detail)

ServerDetail == <<"detail from server">>

\* checkHealth, had it no catch: it throws when GET /health is rejected
checkHealthThrowsRejection(health) == ~health.ok

\* checkHealth throws nothing: its catch takes every rejection of GET /health
\* and returns false
checkHealthThrows(health) == FALSE

\* checkHealth, did it take any answer of GET /health for a healthy server
checkHealthAnyStatus(health) == health.ok

\* ApiBillyService.checkHealth: health is the outcome of GET /health, its
\* data the status field of the body
checkHealth(health) ==
  IF health.ok THEN health.data = <<"healthy">> ELSE FALSE

\* ApiBillyService.sendMessage
sendMessageApi(out) ==
  IF out.ok THEN Returned(out.data)
  ELSE LET error == out.error IN
       Threw(IF TruthyStr(error.detail) THEN error.detail[1]
             ELSE IF Includes(error.message, <<"Network", "Error">>)
               THEN <<"Error de red. Verifica tu conexion.">>
             ELSE IF Includes(error.message, <<"timeout">>)
               THEN <<"Tiempo de espera agotado. Intenta nuevamente.">>
             ELSE <<"Error al enviar mensaje">>)

\* ApiBillyService.uploadPDF
uploadPDFApi(out) ==
  IF out.ok THEN Returned(out.data)
  ELSE LET error == out.error IN
       Threw(IF TruthyStr(error.detail) THEN error.detail[1]
             ELSE IF Includes(error.message, <<"Network", "Error">>)
               THEN <<"Error de red al subir PDF. Verifica tu conexion.">>
             ELSE IF Includes(error.message, <<"timeout">>)
               THEN <<"El PDF es demasiado grande o el servidor esta tardando demasiado.">>
             ELSE IF error.status = Some(413)
               THEN <<"El PDF es demasiado grande. Intenta con un archivo mas pequeno.">>
             ELSE IF error.status = Some(415)
               THEN <<"Formato de archivo no soportado. Asegurate de que sea un PDF valido.">>
             ELSE <<"Error al subir PDF">>)

\* ApiBillyService.askPDF
askPDFApi(out) ==
  IF out.ok THEN Returned(out.data)
  ELSE LET error == out.error IN
       Threw(IF TruthyStr(error.detail) THEN error.detail[1]
             ELSE IF Includes(error.message, <<"No", "PDF", "loaded">>)
               THEN <<"No hay PDF cargado. Primero sube un PDF.">>
             ELSE IF Includes(error.message, <<"Network", "Error">>)
               THEN <<"Error de red. Verifica tu conexion.">>
             ELSE <<"Error al hacer pregunta sobre PDF">>)

\* ApiBillyService.clearHistory
clearHistoryApi(out) ==
  IF out.ok THEN Returned(out.data)
  ELSE LET error == out.error IN
       Threw(IF TruthyStr(error.detail) THEN error.detail[1]
             ELSE <<"Error al limpiar historial">>)

\* 'default', the userId a call is made for when the caller passes none
DefaultUserId == <<"default">>

\* a request of the wrapper on the wire
Call(op, arg) == [op |-> op, arg |-> arg]

----------------------------------------------------------------------------
(* What the server and the network can answer *)

ChatOutcomes ==
  { Resolved(ApiResponse(TRUE, Some(<<"Attention is...">>), None, None, None, None)),
    Resolved(ApiResponse(TRUE, Some(<<>>), None, None, None, None)),
    Resolved(ApiResponse(TRUE, None, None, None, None, None)),
    Resolved(ApiResponse(FALSE, Some(<<"Attention is...">>), None, None, None, None)),
    Rejected(NetworkError) }

AskOutcomes ==
  { Resolved(ApiResponse(TRUE, Some(<<"The paper says...">>), None, None, None, None)),
    Resolved(ApiResponse(TRUE, None, None, None, None, None)),
    Rejected(HttpError(400, Some(<<"No PDF loaded">>))) }

UploadOutcomes ==
  { Resolved(ApiResponse(TRUE, None, Some(<<"Summary...">>), Some(<<"Preview...">>),
                         Some(12), Some(340))),
    Resolved(ApiResponse(TRUE, None, None, None, None, None)),
    Resolved(ApiResponse(TRUE, None, Some(<<>>), None, Some(0), Some(0))),
    Resolved(ApiResponse(FALSE, None, Some(<<"Summary...">>), None, Some(12), Some(340))),
    Rejected(HttpError(415, Some(ServerDetail))) }

ClearOutcomes ==
  { Resolved(ApiResponse(TRUE, None, None, None, None, None)),
    Rejected(NetworkError) }

HealthOutcomes ==
  { [ok |-> TRUE, data |-> <<"healthy">>],
    [ok |-> TRUE, data |-> <<"degraded">>],
    [ok |-> FALSE, data |-> <<>>] }

\* every way the upload request can be rejected: no response (the network,
\* the timeout of 120000 ms), or a response with a status and a body whose
\* detail is missing, empty or a text
UploadFailures ==
  { Rejected(NetworkError), Rejected(TimeoutError("120000ms")) }
  \cup { Rejected(HttpError(status, detail)) :
           status \in {400, 413, 415, 500},
           detail \in {None, Some(<<>>), Some(ServerDetail)} }

\* every answer of GET /health: a body with a status or without one, a
\* rejection by the network, by the timeout of 10000 ms or by the server
AllHealthOutcomes ==
  HealthOutcomes
  \cup { [ok |-> TRUE, data |-> status] : status \in { <<"Healthy">>, <<"ok">>, <<>> } }
  \cup { [ok |-> FALSE, data |-> <<>>, error |-> error] :
           error \in { NetworkError, TimeoutError("10000ms"), HttpError(500, None),
                       HttpError(503, Some(ServerDetail)) } }

\* what DocumentPicker.pick resolves or rejects with: the name of the file,
\* or the code of the error
Picked(name) == [picked |-> TRUE, name |-> name, code |-> ""]
PickFailed(code) == [picked |-> FALSE, name |-> None, code |-> code]

PickOutcomes ==
  { Picked(Some(<<"paper.pdf">>)), Picked(None),
    PickFailed("DOCUMENT_PICKER_CANCELED"), PickFailed("PERMISSION_DENIED"),
    PickFailed("UNSUPPORTED_TYPE"), PickFailed("OTHER") }

----------------------------------------------------------------------------
(* ChatbotScreen.tsx: the state of the screen *)

\* interface ChatMessage (types/chat.ts) as built by addMessage
NewMessage(text, isBot, type) == [text |-> text, isBot |-> isBot, type |-> type]

\* addMessage: setMessages(prev => [...prev, newMessage])
addMessage(prev, text, isBot, type) == Append(prev, NewMessage(text, isBot, type))

\* the message the transcript is created with
InitialGreeting == NewMessage(<<"Hola! Soy Billy, tu asistente de investigacion academica.">>,
                              TRUE, "text")

\* the message clearChat resets the transcript to
ResetGreeting == NewMessage(<<"Hola! Soy Billy. La conversacion ha sido reiniciada.">>,
                            TRUE, "text")

\* the task that ran last: the handler, the branch it took, the call it
\* issued if any, and the outcome of the awaited call it resumed with if any
Ev(h, branch, call, out) == [h |-> h, branch |-> branch, call |-> call, out |-> out]

Init ==
  /\ messages = <<InitialGreeting>>
  /\ inputText = <<>>
  /\ isLoading = FALSE
  /\ isServerConnected = "null"
  /\ currentPDF = None
  /\ uploadingPDF = FALSE
  /\ modal = "none"
  /\ pickConn = "null"
  /\ healthReq = TRUE        \* useEffect(() => { checkServerConnection() }, [])
  /\ chatReq = None
  /\ uploadReq = None
  /\ clearReqs = 0
  /\ ev = Ev("mount", "", None, None)
  /\ uploaded = FALSE
  /\ appended = 0

\* TextInput editable={!isLoading && !uploadingPDF}
inputEditable == ~isLoading /\ ~uploadingPDF

\* the send button, were it disabled for blank input only
sendDisabledBlankOnly == Trim(inputText) = <<>>

\* send button disabled={!inputText.trim() || isLoading || uploadingPDF}
sendDisabled == Trim(inputText) = <<>> \/ isLoading \/ uploadingPDF

\* the PDF button, were it disabled for a pick or an upload only
pickDisabledUploadingOnly == uploadingPDF

\* PDF button disabled={uploadingPDF || isLoading}
pickDisabled == uploadingPDF \/ isLoading

\* the user can touch the screen: no Alert and no document picker covers it
Touchable == modal = "none"

\* the messages the operations under way can still append
Reserved ==
  (IF healthReq THEN 1 ELSE 0) + (IF chatReq # None THEN 1 ELSE 0)
  + (IF uploadReq # None THEN 2 ELSE 0) + (IF modal = "picker" THEN 3 ELSE 0)
  + (IF modal = "clearPDF" THEN 1 ELSE 0)

\* the transcript has room for a user action that appends up to k messages
Room(k) == Len(messages) + Reserved + k <= MaxMessages

----------------------------------------------------------------------------
(* checkServerConnection, from its await on *)

\* a task that belongs to no text submission and no upload leaves the count
\* of the one under way, and forgets that of one that has ended
OtherTask == appended' = IF isLoading \/ uploadingPDF THEN appended ELSE 0

checkServerConnectionResume(health) ==
  /\ healthReq
  /\ IF checkHealthThrows(health)
     THEN \* catch { setIsServerConnected(false); addMessage(...) }
          /\ isServerConnected' = "false"
          /\ messages' = addMessage(messages,
                           <<"No se pudo conectar con el servidor. Usando modo local.">>,
                           TRUE, "text")
     ELSE LET connected == checkHealth(health) IN
          /\ isServerConnected' = IF connected THEN "true" ELSE "false"
          /\ messages' = addMessage(messages,
                           IF connected
                             THEN <<"Servidor conectado. Puedes subir PDFs y usar todas las funcionalidades!">>
                             ELSE <<"Servidor no disponible. Para analizar PDFs, asegurate de que el servidor este corriendo.">>,
                           TRUE, "text")
  /\ ev' = Ev("checkServerConnection.resume", "", None, Some(health))
  /\ healthReq' = FALSE
  /\ OtherTask
  /\ UNCHANGED <<inputText, isLoading, currentPDF, uploadingPDF, modal, pickConn,
                 chatReq, uploadReq, clearReqs, uploaded>>

----------------------------------------------------------------------------
(* the input field *)

\* onChangeText={setInputText}
onChangeText(text) ==
  /\ Touchable
  /\ inputEditable
  /\ inputText' = text
  /\ ev' = Ev("onChangeText", "", None, None)
  /\ OtherTask
  /\ UNCHANGED <<messages, isLoading, isServerConnected, currentPDF, uploadingPDF,
                 modal, pickConn, healthReq, chatReq, uploadReq, clearReqs, uploaded>>

----------------------------------------------------------------------------
(* sendMessage, handleNormalChat, handlePDFQuestion *)

\* what a handler has done when it reaches its await or returns: the
\* transcript, and the call it awaits if any
Sync(msgs, call) == [messages |-> msgs, call |-> call]

\* handleNormalChat, did it not consult isServerConnected
handleNormalChatNoGate(prev, message) == Sync(prev, Some(Call("sendMessage", message)))

\* handleNormalChat, did it send the trimmed text
handleNormalChatTrimmed(prev, message) ==
  IF isServerConnected = "false"
  THEN Sync(addMessage(prev, <<"Estoy procesando tu consulta academica. Para analizar PDFs, asegurate de que el servidor este corriendo.">>,
                       TRUE, "text"),
            None)
  ELSE Sync(prev, Some(Call("sendMessage", Trim(message))))

\* handleNormalChat, did it call the server only once it is known to be
\* reachable
handleNormalChatGateUnknown(prev, message) ==
  IF isServerConnected # "true"
  THEN Sync(addMessage(prev, <<"Estoy procesando tu consulta academica. Para analizar PDFs, asegurate de que el servidor este corriendo.">>,
                       TRUE, "text"),
            None)
  ELSE Sync(prev, Some(Call("sendMessage", message)))

\* handleNormalChat up to its await
handleNormalChat(prev, message) ==
  IF isServerConnected = "false"
  THEN Sync(addMessage(prev, <<"Estoy procesando tu consulta academica. Para analizar PDFs, asegurate de que el servidor este corriendo.">>,
                       TRUE, "text"),
            None)
  ELSE Sync(prev, Some(Call("sendMessage", message)))

\* handlePDFQuestion, did it not announce the question
handlePDFQuestionSilent(prev, question) ==
  IF currentPDF = None \/ isServerConnected = "false"
  THEN Sync(addMessage(prev, <<"Primero debes subir un PDF para hacer preguntas sobre el.">>,
                       TRUE, "text"),
            None)
  ELSE Sync(prev, Some(Call("askPDF", question)))

\* handlePDFQuestion up to its await
handlePDFQuestion(prev, question) ==
  IF currentPDF = None
  THEN Sync(addMessage(prev, <<"Primero debes subir un PDF para hacer preguntas sobre el.">>,
                       TRUE, "text"),
            None)
  ELSE IF isServerConnected = "false"
  THEN Sync(addMessage(prev, <<"Para analizar PDFs, necesito conectarme al servidor. Asegurate de que este corriendo.">>,
                       TRUE, "text"),
            None)
  ELSE Sync(addMessage(prev, <<"Preguntando sobre el PDF: ">> \o question \o <<"...">>,
                       TRUE, "pdf_upload"),
            Some(Call("askPDF", question)))

\* the routing of sendMessage, did it never, or always, take the PDF branch
RoutesToPDFNever == FALSE
RoutesToPDFAlways == TRUE

\* sendMessage: if (currentPDF) handlePDFQuestion else handleNormalChat
RoutesToPDF == currentPDF # None

\* sendMessage past its guard, up to its await
sendMessageSync(userMessage) ==
  LET sent == addMessage(messages, userMessage, FALSE, "text") IN
  IF RoutesToPDF THEN handlePDFQuestion(sent, userMessage)
                 ELSE handleNormalChat(sent, userMessage)

\* the guard of sendMessage, did it compare the text as typed
sendMessageBlankUntrimmed(text) == text = <<>>

\* if (inputText.trim() === '') return
sendMessageBlank(text) == Trim(text) = <<>>

\* a touch on the send button (via = "button") or a submit from the
\* keyboard (via = "keyboard"); sendMessage runs if the control is enabled
sendMessage(via) ==
  /\ Touchable
  /\ IF (via = "button" /\ sendDisabled) \/ (via = "keyboard" /\ ~inputEditable)
     THEN /\ ev' = Ev("sendMessage", "disabled", None, None)
          /\ OtherTask
          /\ UNCHANGED <<messages, inputText, isLoading, chatReq>>
     ELSE IF sendMessageBlank(inputText)
     THEN /\ ev' = Ev("sendMessage", "blank", None, None)
          /\ OtherTask
          /\ UNCHANGED <<messages, inputText, isLoading, chatReq>>
     ELSE /\ Room(IF currentPDF # None THEN 3 ELSE 2)
          /\ LET done == sendMessageSync(inputText) IN
               /\ messages' = done.messages
               /\ chatReq' = done.call
               \* setIsLoading(true); a handler that returns at once runs the
               \* finally, setIsLoading(false), in the same task
               /\ isLoading' = (done.call # None)
               /\ ev' = Ev("sendMessage",
                           IF RoutesToPDF THEN "handlePDFQuestion" ELSE "handleNormalChat",
                           done.call, None)
          /\ inputText' = <<>>
          /\ appended' = Len(messages') - Len(messages)
  /\ UNCHANGED <<isServerConnected, currentPDF, uploadingPDF, modal, pickConn,
                 healthReq, uploadReq, clearReqs, uploaded>>

\* the reply of handleNormalChat, did it not look at response.success
handleNormalChatReplyAnySuccess(r) ==
  IF r.threw
  THEN NewMessage(<<"Error: ">> \o r.message, TRUE, "error")
  ELSE IF TruthyStr(r.data.response)
       THEN NewMessage(r.data.response[1], TRUE, "text")
       ELSE NewMessage(<<"No recibi una respuesta valida del servidor.">>, TRUE, "error")

\* the message handleNormalChat appends when its call has completed
handleNormalChatReply(r) ==
  IF r.threw
  THEN NewMessage(<<"Error: ">> \o r.message, TRUE, "error")
  ELSE IF r.data.success /\ TruthyStr(r.data.response)
       THEN NewMessage(r.data.response[1], TRUE, "text")
       ELSE NewMessage(<<"No recibi una respuesta valida del servidor.">>, TRUE, "error")

\* the message handlePDFQuestion appends when its call has completed
handlePDFQuestionReply(r) ==
  IF r.threw
  THEN NewMessage(<<"Error analizando PDF: ">> \o r.message, TRUE, "error")
  ELSE IF r.data.success /\ TruthyStr(r.data.response)
       THEN NewMessage(<<"Respuesta basada en el PDF: ">> \o r.data.response[1],
                       TRUE, "pdf_analysis")
       ELSE NewMessage(<<"No pude analizar el PDF. Asegurate de que este bien formateado.">>,
                       TRUE, "error")

\* what handleNormalChat rejects with, did its catch throw the Error again
handleNormalChatRejectsAgain(r) == IF r.threw THEN Some(r.message) ELSE None

\* what handleNormalChat rejects with when its call has completed: its catch
\* takes every Error of the call, and addMessage throws none
handleNormalChatRejects(r) == None

\* what handlePDFQuestion rejects with when its call has completed
handlePDFQuestionRejects(r) == None

\* the catch of sendMessage: the message it appends for the Error thrown, if
\* any, by the handler it awaits
sendMessageCatch(thrown) ==
  IF thrown = None THEN <<>>
  ELSE <<NewMessage(<<"X Error: ">> \o thrown[1], TRUE, "error")>>

\* sendMessage from the await of handleNormalChat on
handleNormalChatResume(out) ==
  /\ chatReq # None
  /\ chatReq[1].op = "sendMessage"
  /\ LET r == sendMessageApi(out) IN
       messages' = Append(messages, handleNormalChatReply(r))
                     \o sendMessageCatch(handleNormalChatRejects(r))
  /\ isLoading' = FALSE
  /\ chatReq' = None
  /\ ev' = Ev("handleNormalChat.resume", "", None, Some(out))
  /\ appended' = appended + Len(messages') - Len(messages)
  /\ UNCHANGED <<inputText, isServerConnected, currentPDF, uploadingPDF, modal,
                 pickConn, healthReq, uploadReq, clearReqs, uploaded>>

\* sendMessage from the await of handlePDFQuestion on
handlePDFQuestionResume(out) ==
  /\ chatReq # None
  /\ chatReq[1].op = "askPDF"
  /\ LET r == askPDFApi(out) IN
       messages' = Append(messages, handlePDFQuestionReply(r))
                     \o sendMessageCatch(handlePDFQuestionRejects(r))
  /\ isLoading' = FALSE
  /\ chatReq' = None
  /\ ev' = Ev("handlePDFQuestion.resume", "", None, Some(out))
  /\ appended' = appended + Len(messages') - Len(messages)
  /\ UNCHANGED <<inputText, isServerConnected, currentPDF, uploadingPDF, modal,
                 pickConn, healthReq, uploadReq, clearReqs, uploaded>>

----------------------------------------------------------------------------
(* pickPDF, uploadPDF *)

\* a touch on the PDF button; pickPDF runs if the button is enabled, up to
\* its await of DocumentPicker.pick
pickPDF ==
  /\ Touchable
  /\ IF pickDisabled
     THEN /\ ev' = Ev("pickPDF", "disabled", None, None)
          /\ OtherTask
          /\ UNCHANGED <<uploadingPDF, modal, pickConn>>
     ELSE /\ Room(3)
          /\ uploadingPDF' = TRUE
          /\ modal' = "picker"
          /\ pickConn' = isServerConnected
          /\ ev' = Ev("pickPDF", "picker", None, None)
          /\ appended' = 0
  /\ UNCHANGED <<messages, inputText, isLoading, isServerConnected, currentPDF,
                 healthReq, chatReq, uploadReq, clearReqs, uploaded>>

\* const fileName = result.name || "documento.pdf"
FileName(name) == IF TruthyStr(name) THEN name[1] ELSE <<"documento.pdf">>

\* uploadPDF up to its await; connected is the isServerConnected of its closure
uploadPDF(prev, connected, fileName) ==
  IF connected = "false"
  THEN Sync(prev, None)
  ELSE Sync(addMessage(prev, <<"Subiendo PDF: ">> \o fileName \o <<"...">>,
                       TRUE, "pdf_upload"),
            Some(Call("uploadPDF", fileName)))

\* pickPDF, had it no finally: uploadingPDF stays as it is
pickPDFNoFinally(uploading) == uploading

\* the finally of pickPDF: setUploadingPDF(false)
pickPDFFinally(uploading) == FALSE

\* the catch of pickPDF, did it show an Alert for every code
pickPDFCatchAlertAlways(code) == "alert"

\* the catch of pickPDF: a cancelled selection is logged, any other Error of
\* the picker is shown in an Alert
pickPDFCatch(code) == IF code = "DOCUMENT_PICKER_CANCELED" THEN "none" ELSE "alert"

\* pickPDF from its await of the picker on, up to the await in uploadPDF
pickPDFResume(p) ==
  /\ modal = "picker"
  /\ pickConn' = "null"
  /\ IF p.picked
     THEN LET done == uploadPDF(messages, pickConn, FileName(p.name)) IN
            /\ messages' = done.messages
            /\ uploadReq' = done.call
            /\ uploadingPDF' = IF done.call # None THEN uploadingPDF
                               ELSE pickPDFFinally(uploadingPDF)
            \* Alert 'Servidor no disponible' if uploadPDF returned at once
            /\ modal' = IF done.call # None THEN "none" ELSE "alert"
            /\ ev' = Ev("pickPDF.resume", "uploadPDF", done.call, Some(p))
     ELSE /\ modal' = pickPDFCatch(p.code)
          /\ uploadingPDF' = pickPDFFinally(uploadingPDF)
          /\ ev' = Ev("pickPDF.resume", "catch", None, Some(p))
          /\ UNCHANGED <<messages, uploadReq>>
  /\ appended' = appended + Len(messages') - Len(messages)
  /\ UNCHANGED <<inputText, isLoading, isServerConnected, currentPDF, healthReq,
                 chatReq, clearReqs, uploaded>>

\* the value uploadPDF passes to setCurrentPDF
UploadedPDF(fileName, response) ==
  [name |-> fileName, analysis |-> response.analysis, preview |-> response.preview,
   pages |-> response.pages, size_kb |-> response.size_kb]

\* the message uploadPDF appends after a successful upload
UploadedNotice(fileName, response) ==
  NewMessage(<<"PDF subido exitosamente! Archivo: ">> \o fileName
             \o <<" Paginas: ",
                  IF TruthyNum(response.pages) THEN ToString(response.pages[1]) ELSE "N/A">>
             \o <<" Tamano: ">>
             \o (IF TruthyNum(response.size_kb)
                   THEN <<ToString(response.size_kb[1]), " KB">> ELSE <<"N/A">>)
             \o <<" Ahora puedes hacer preguntas sobre este documento.">>,
             TRUE, "pdf")

\* the message uploadPDF appends for the analysis of a successful upload
AnalysisNotice(analysis) ==
  NewMessage(<<"Analisis inicial del PDF: ">> \o analysis, TRUE, "pdf_analysis")

\* the reply of uploadPDF, did it show any analysis field, empty or not
uploadPDFReplyAnyAnalysis(fileName, r) ==
  IF r.threw
  THEN <<NewMessage(<<"Error subiendo PDF: ">> \o r.message, TRUE, "error")>>
  ELSE IF r.data.success
       THEN <<UploadedNotice(fileName, r.data)>>
            \o (IF r.data.analysis # None
                  THEN <<AnalysisNotice(r.data.analysis[1])>> ELSE <<>>)
       ELSE <<NewMessage(<<"Error al subir el PDF. Intenta con otro archivo.">>,
                         TRUE, "error")>>

\* the messages uploadPDF appends when its call has completed
uploadPDFReply(fileName, r) ==
  IF r.threw
  THEN <<NewMessage(<<"Error subiendo PDF: ">> \o r.message, TRUE, "error")>>
  ELSE IF r.data.success
       THEN <<UploadedNotice(fileName, r.data)>>
            \o (IF TruthyStr(r.data.analysis)
                  THEN <<AnalysisNotice(r.data.analysis[1])>> ELSE <<>>)
       ELSE <<NewMessage(<<"Error al subir el PDF. Intenta con otro archivo.">>,
                         TRUE, "error")>>

\* the document of uploadPDF, did it not look at response.success
uploadPDFDocumentAnySuccess(current, fileName, r) ==
  IF ~r.threw THEN Some(UploadedPDF(fileName, r.data)) ELSE current

\* the document of uploadPDF, did it keep the fields of the previous document
\* that the response leaves out
uploadPDFDocumentMerged(current, fileName, r) ==
  IF ~r.threw /\ r.data.success
  THEN LET old == IF current = None THEN UploadedPDF(fileName, NoData) ELSE current[1]
           Keep(new, prev) == IF new = None THEN prev ELSE new
       IN Some([name |-> fileName,
                analysis |-> Keep(r.data.analysis, old.analysis),
                preview |-> Keep(r.data.preview, old.preview),
                pages |-> Keep(r.data.pages, old.pages),
                size_kb |-> Keep(r.data.size_kb, old.size_kb)])
  ELSE current

\* the document uploadPDF leaves in the slot when its call has completed
uploadPDFDocument(current, fileName, r) ==
  IF ~r.threw /\ r.data.success THEN Some(UploadedPDF(fileName, r.data)) ELSE current

\* what uploadPDF rejects with when its call has completed: its catch takes
\* every Error of the call
uploadPDFRejects(r) == None

\* pickPDF from the await in uploadPDF on; its catch shows the Alert 'Error'
\* for an Error that has no code
uploadPDFResume(out) ==
  /\ uploadReq # None
  /\ LET r == uploadPDFApi(out)
         fileName == uploadReq[1].arg
     IN /\ currentPDF' = uploadPDFDocument(currentPDF, fileName, r)
        /\ messages' = messages \o uploadPDFReply(fileName, r)
        /\ modal' = IF uploadPDFRejects(r) = None THEN modal ELSE "alert"
  /\ ev' = Ev("uploadPDF.resume", "", None, Some(out))
  /\ uploadingPDF' = pickPDFFinally(uploadingPDF)
  /\ uploadReq' = None
  /\ uploaded' = (uploaded \/ (out.ok /\ out.data.success))
  /\ appended' = appended + Len(messages') - Len(messages)
  /\ UNCHANGED <<inputText, isLoading, isServerConnected, pickConn,
                 healthReq, chatReq, clearReqs>>

----------------------------------------------------------------------------
(* clearPDF, showPDFInfo, clearChat and their Alerts *)

\* clearPDF, did it clear the document before the user has confirmed
clearPDFAtOnce ==
  /\ Touchable
  /\ currentPDF # None
  /\ Room(1)
  /\ modal' = "clearPDF"
  /\ currentPDF' = None
  /\ uploaded' = FALSE
  /\ ev' = Ev("clearPDF", "", None, None)
  /\ OtherTask
  /\ UNCHANGED <<messages, inputText, isLoading, isServerConnected, uploadingPDF,
                 pickConn, healthReq, chatReq, uploadReq, clearReqs>>

\* a touch on the X of the active-PDF banner, rendered when currentPDF is set
clearPDF ==
  /\ Touchable
  /\ currentPDF # None
  /\ Room(1)
  /\ modal' = "clearPDF"
  /\ ev' = Ev("clearPDF", "", None, None)
  /\ OtherTask
  /\ UNCHANGED <<messages, inputText, isLoading, isServerConnected, currentPDF,
                 uploadingPDF, pickConn, healthReq, chatReq, uploadReq, clearReqs,
                 uploaded>>

\* 'Limpiar' of the Alert of clearPDF
clearPDFOnPress ==
  /\ modal = "clearPDF"
  /\ modal' = "none"
  /\ currentPDF' = None
  /\ messages' = addMessage(messages,
                   <<"PDF eliminado. Puedes subir otro documento cuando quieras.">>,
                   TRUE, "text")
  /\ ev' = Ev("clearPDF.onPress", "", None, None)
  /\ uploaded' = FALSE
  /\ OtherTask
  /\ UNCHANGED <<inputText, isLoading, isServerConnected, uploadingPDF, pickConn,
                 healthReq, chatReq, uploadReq, clearReqs>>

\* a touch on the PDF icon of the header, rendered when currentPDF is set
showPDFInfo ==
  /\ Touchable
  /\ currentPDF # None
  /\ modal' = "alert"
  /\ ev' = Ev("showPDFInfo", "", None, None)
  /\ OtherTask
  /\ UNCHANGED <<messages, inputText, isLoading, isServerConnected, currentPDF,
                 uploadingPDF, pickConn, healthReq, chatReq, uploadReq, clearReqs,
                 uploaded>>

\* a touch on the bin of the header
clearChat ==
  /\ Touchable
  /\ modal' = "clearChat"
  /\ ev' = Ev("clearChat", "", None, None)
  /\ OtherTask
  /\ UNCHANGED <<messages, inputText, isLoading, isServerConnected, currentPDF,
                 uploadingPDF, pickConn, healthReq, chatReq, uploadReq, clearReqs,
                 uploaded>>

\* 'Limpiar' of the Alert of clearChat, up to its await of clearHistory
clearChatOnPress ==
  /\ modal = "clearChat"
  /\ clearReqs < MaxClearReqs
  /\ modal' = "none"
  /\ clearReqs' = clearReqs + 1
  /\ ev' = Ev("clearChat.onPress", "", Some(Call("clearHistory", DefaultUserId)), None)
  /\ OtherTask
  /\ UNCHANGED <<messages, inputText, isLoading, isServerConnected, currentPDF,
                 uploadingPDF, pickConn, healthReq, chatReq, uploadReq, uploaded>>

\* 'Limpiar' of the Alert of clearChat, from its await on
clearChatResume(out) ==
  /\ clearReqs > 0
  /\ clearReqs' = clearReqs - 1
  /\ messages' = <<ResetGreeting>>
  /\ currentPDF' = None
  /\ ev' = Ev("clearChat.resume", IF clearHistoryApi(out).threw THEN "catch" ELSE "", None,
              Some(out))
  /\ uploaded' = FALSE
  /\ OtherTask
  /\ UNCHANGED <<inputText, isLoading, isServerConnected, uploadingPDF, modal,
                 pickConn, healthReq, chatReq, uploadReq>>

\* 'Cancelar' of the Alert of clearPDF or clearChat, 'OK' of any other Alert
alertDismiss ==
  /\ modal \in {"clearPDF", "clearChat", "alert"}
  /\ modal' = "none"
  /\ ev' = Ev("alert.dismiss", modal, None, None)
  /\ OtherTask
  /\ UNCHANGED <<messages, inputText, isLoading, isServerConnected, currentPDF,
                 uploadingPDF, pickConn, healthReq, chatReq, uploadReq, clearReqs,
                 uploaded>>

----------------------------------------------------------------------------

Next ==
  \/ \E health \in HealthOutcomes : checkServerConnectionResume(health)
  \/ \E text \in Inputs : onChangeText(text)
  \/ \E via \in {"button", "keyboard"} : sendMessage(via)
  \/ \E out \in ChatOutcomes : handleNormalChatResume(out)
  \/ \E out \in AskOutcomes : handlePDFQuestionResume(out)
  \/ pickPDF
  \/ \E p \in PickOutcomes : pickPDFResume(p)
  \/ \E out \in UploadOutcomes : uploadPDFResume(out)
  \/ clearPDF
  \/ clearPDFOnPress
  \/ showPDFInfo
  \/ clearChat
  \/ clearChatOnPress
  \/ \E out \in ClearOutcomes : clearChatResume(out)
  \/ alertDismiss

Spec == Init /\ [][Next]_vars

\* one outcome of each kind for the awaited calls and for the picker: the
\* call returns or throws, the server is healthy or cannot be reached, a file
\* is selected, the selection is cancelled or the picker fails
LiveHealthOutcomes == { h \in HealthOutcomes : h.data # <<"degraded">> }
LiveChatOutcomes ==
  { o \in ChatOutcomes : o.ok => TruthyStr(o.data.response) /\ o.data.success }
LiveAskOutcomes == { o \in AskOutcomes : o.ok => TruthyStr(o.data.response) }
LiveUploadOutcomes == { o \in UploadOutcomes : o.ok => TruthyNum(o.data.pages) /\ o.data.success }
LivePickOutcomes ==
  { p \in PickOutcomes : IF p.picked THEN p.name # None
                         ELSE p.code \in {"DOCUMENT_PICKER_CANCELED", "OTHER"} }

LiveNext ==
  \/ \E health \in LiveHealthOutcomes : checkServerConnectionResume(health)
  \/ \E text \in Inputs : onChangeText(text)
  \/ \E via \in {"button", "keyboard"} : sendMessage(via)
  \/ \E out \in LiveChatOutcomes : handleNormalChatResume(out)
  \/ \E out \in LiveAskOutcomes : handlePDFQuestionResume(out)
  \/ pickPDF
  \/ \E p \in LivePickOutcomes : pickPDFResume(p)
  \/ \E out \in LiveUploadOutcomes : uploadPDFResume(out)
  \/ clearPDF
  \/ clearPDFOnPress
  \/ showPDFInfo
  \/ clearChat
  \/ clearChatOnPress
  \/ \E out \in ClearOutcomes : clearChatResume(out)
  \/ alertDismiss

\* every call that is awaited completes, by a reply, an Error or a timeout,
\* and the document picker that is open closes, by a selection or an Error
AwaitsComplete ==
  /\ WF_vars(\E out \in LiveChatOutcomes : handleNormalChatResume(out))
  /\ WF_vars(\E out \in LiveAskOutcomes : handlePDFQuestionResume(out))
  /\ WF_vars(\E p \in LivePickOutcomes : pickPDFResume(p))
  /\ WF_vars(\E out \in LiveUploadOutcomes : uploadPDFResume(out))

LiveSpec == Init /\ [][LiveNext]_vars /\ AwaitsComplete

\* the probe and the uploads of the screen, with every answer of GET /health
\* and every rejection of the upload request
FailureNext ==
  \/ \E health \in AllHealthOutcomes : checkServerConnectionResume(health)
  \/ pickPDF
  \/ \E p \in LivePickOutcomes : pickPDFResume(p)
  \/ \E out \in UploadFailures \cup LiveUploadOutcomes : uploadPDFResume(out)
  \/ alertDismiss

FailureSpec == Init /\ [][FailureNext]_vars

----------------------------------------------------------------------------
(* The ids of the messages.  The screen never reads an id or a timestamp     *)
(* back, so NewMessage leaves them out; here a message carries both, and the *)
(* transcript is followed through the calls of addMessage and the resets of  *)
(* clearChat alone, whichever handler makes them.  An id is counted in       *)
(* units of 1/Buckets of a millisecond.                                      *)

\* Date.now() + Math.random(): random is the nearest of the numbers a double
\* can tell apart, 0 .. Buckets - 1 within the millisecond, or Buckets, the
\* next millisecond, when the sum rounds up
DateNowPlusRandom(now, random) == now * Buckets + random

\* a ChatMessage with its id and its timestamp
Stamped(message, id, now) ==
  [id |-> id, text |-> message.text, isBot |-> message.isBot, timestamp |-> now,
   type |-> message.type]

\* Date.now() is not less than the timestamp of the last message
Later(now) == now \in messages[Len(messages)].timestamp .. MaxNow

\* useState<ChatMessage[]>([{ id: Date.now(), ... }])
IdInit ==
  /\ messages = <<Stamped(InitialGreeting, 0 * Buckets, 0)>>
  /\ inputText = <<>>
  /\ isLoading = FALSE
  /\ isServerConnected = "null"
  /\ currentPDF = None
  /\ uploadingPDF = FALSE
  /\ modal = "none"
  /\ pickConn = "null"
  /\ healthReq = TRUE
  /\ chatReq = None
  /\ uploadReq = None
  /\ clearReqs = 0
  /\ ev = Ev("mount", "", None, None)
  /\ uploaded = FALSE
  /\ appended = 0

\* a call of addMessage at the millisecond now, with Math.random() = random
IdAddMessage(now, random) ==
  /\ Len(messages) < MaxIdMessages
  /\ Later(now)
  /\ messages' = Append(messages,
                   Stamped(NewMessage(<<"text">>, TRUE, "text"),
                           DateNowPlusRandom(now, random), now))
  /\ ev' = Ev("addMessage", "", None, None)
  /\ UNCHANGED <<inputText, isLoading, isServerConnected, currentPDF, uploadingPDF,
                 modal, pickConn, healthReq, chatReq, uploadReq, clearReqs, uploaded,
                 appended>>

\* the reset of clearChat at the millisecond now: setMessages([{ id: Date.now(), ... }])
IdClearChat(now) ==
  /\ Later(now)
  /\ messages' = <<Stamped(ResetGreeting, now * Buckets, now)>>
  /\ ev' = Ev("clearChat.resume", "", None, None)
  /\ UNCHANGED <<inputText, isLoading, isServerConnected, currentPDF, uploadingPDF,
                 modal, pickConn, healthReq, chatReq, uploadReq, clearReqs, uploaded,
                 appended>>

IdNext ==
  \/ \E now \in 0..MaxNow, random \in 0..Buckets : IdAddMessage(now, random)
  \/ \E now \in 0..MaxNow : IdClearChat(now)

IdSpec == IdInit /\ [][IdNext]_vars

----------------------------------------------------------------------------
(* Vocabulary of the properties *)

\* the task e was a text submission that passed the guards of sendMessage
Accepted(e) == e.h = "sendMessage" /\ e.branch \in {"handleNormalChat", "handlePDFQuestion"}

\* the step keeps the transcript and appends to it
Grown == /\ Len(messages') >= Len(messages)
         /\ SubSeq(messages', 1, Len(messages)) = messages

\* the messages the step appends
New == SubSeq(messages', Len(messages) + 1, Len(messages'))

\* no call is issued by the step
NoNewCall == /\ ev'.call = None
             /\ chatReq' = chatReq
             /\ uploadReq' = uploadReq
             /\ clearReqs' = clearReqs
             /\ healthReq' = healthReq

\* the awaited call of the task e resolved, and with success set
Resolves(e) == e.out # None /\ e.out[1].ok
Succeeds(e) == Resolves(e) /\ e.out[1].data.success

\* the step ends a text submission
EndsRoundTrip(e) ==
  \/ e.h \in {"handleNormalChat.resume", "handlePDFQuestion.resume"}
  \/ Accepted(e) /\ e.call = None

----------------------------------------------------------------------------
(* Properties *)

\* C1: a text submission made while isLoading or uploadingPDF is set changes
\* neither the transcript nor the active document and issues no call.
C1_PendingSubmitIsNoOp ==
  [][ ((isLoading \/ uploadingPDF) /\ ev'.h = "sendMessage")
        => (messages' = messages /\ currentPDF' = currentPDF /\ NoNewCall) ]_vars

\* a non-blank text was submitted during an upload and was turned down
C1_Witness ==
  /\ ev.h = "sendMessage" /\ ev.branch = "disabled"
  /\ uploadingPDF /\ uploadReq # None
  /\ Trim(inputText) # <<>>

\* C2 as stated: every text submission that has ended has appended exactly
\* two messages, the user's and one reply.
C2_TwoMessagesPerRoundTrip == EndsRoundTrip(ev) => appended = 2

\* C2 amended: an accepted submission appends the user's message first, and
\* with it the notice of a short-circuit or the progress message of a
\* document question; the completion of its call appends exactly one
\* message of the assistant; in all two messages, three for a document
\* question that was dispatched.
C2_MessagesPerRoundTrip ==
  [][ /\ Accepted(ev') =>
           /\ Grown
           /\ New[1] = NewMessage(inputText, FALSE, "text")
           /\ \A i \in 2..Len(New) : New[i].isBot
           /\ Len(New) = (IF ev'.call # None /\ ev'.call[1].op = "sendMessage" THEN 1 ELSE 2)
           /\ appended' = Len(New)
      /\ ev'.h \in {"handleNormalChat.resume", "handlePDFQuestion.resume"} =>
           /\ Grown
           /\ Len(New) = 1
           /\ New[1].isBot
           /\ appended' = (IF ev'.h = "handlePDFQuestion.resume" THEN 3 ELSE 2) ]_vars

\* a document question has been answered: three messages
C2_Witness == ev.h = "handlePDFQuestion.resume" /\ appended = 3 /\ ~isLoading

\* C3: from a successful upload until clearPDF or clearChat takes effect, a
\* text submission that issues a call issues askPDF, never sendMessage.
C3_UploadedRoutesToAskPDF ==
  [][ (uploaded /\ ev'.h = "sendMessage" /\ ev'.call # None)
        => ev'.call[1].op = "askPDF" ]_vars

\* a question was sent to askPDF after an upload
C3_Witness ==
  /\ uploaded
  /\ Accepted(ev) /\ ev.call # None /\ ev.call[1].op = "askPDF"

\* C4: once clearPDF or clearChat has taken effect and no upload has
\* succeeded since, an accepted submission goes to handleNormalChat: it
\* issues no askPDF, and it issues sendMessage unless the server is known to
\* be unreachable.
C4_ClearedRoutesToSendChat ==
  [][ (~uploaded /\ Accepted(ev'))
        => /\ ev'.branch = "handleNormalChat"
           /\ ev'.call # None => ev'.call[1].op = "sendMessage"
           /\ isServerConnected # "false" => ev'.call # None ]_vars

\* a text was sent to sendMessage after the document had been cleared
C4_Witness ==
  /\ Accepted(ev) /\ ev.call # None /\ ev.call[1].op = "sendMessage"
  /\ \E i \in 1..Len(messages) :
       messages[i].text = <<"PDF eliminado. Puedes subir otro documento cuando quieras.">>
  /\ ~uploaded

\* C5: the slot holds at most one document, and a successful upload puts
\* there, in one step, the document of the response: the name of the file
\* and the analysis, preview, pages and size_kb of the response, nothing of
\* the document that was there.
C5_UploadReplacesDocument ==
  [][ /\ Len(currentPDF') <= 1
      /\ (ev'.h = "uploadPDF.resume" /\ Succeeds(ev')) =>
           currentPDF' = Some([name |-> uploadReq[1].arg,
                               analysis |-> ev'.out[1].data.analysis,
                               preview |-> ev'.out[1].data.preview,
                               pages |-> ev'.out[1].data.pages,
                               size_kb |-> ev'.out[1].data.size_kb]) ]_vars

\* a second upload has succeeded, with a response that has no field set
C5_Witness ==
  /\ ev.h = "uploadPDF.resume" /\ Succeeds(ev)
  /\ Cardinality({i \in 1..Len(messages) : messages[i].type = "pdf"}) >= 2
  /\ currentPDF # None
  /\ currentPDF[1].analysis = None /\ currentPDF[1].pages = None

\* C6: an accepted submission made while isServerConnected is false issues
\* no call and appends, after the user's message, a notice of the assistant;
\* made while it is null or true, it issues its call.
C6_ConnectivityGating ==
  [][ Accepted(ev') =>
        IF isServerConnected = "false"
        THEN /\ ev'.call = None /\ chatReq' = None
             /\ Grown /\ Len(New) = 2
             /\ New[2].isBot /\ New[2].type = "text"
             /\ New[2].text \in
                  { <<"Estoy procesando tu consulta academica. Para analizar PDFs, asegurate de que el servidor este corriendo.">>,
                    <<"Para analizar PDFs, necesito conectarme al servidor. Asegurate de que este corriendo.">> }
        ELSE /\ ev'.call # None /\ chatReq' = ev'.call
             /\ ev'.call[1].op \in {"sendMessage", "askPDF"} ]_vars

\* a text was submitted with the server known to be unreachable
C6_Witness ==
  /\ Accepted(ev) /\ ev.call = None
  /\ isServerConnected = "false"
  /\ ~isLoading

\* C7: when the upload call throws or returns success false, the step leaves
\* the slot as it is, appends one message of type error and nothing else,
\* and clears uploadingPDF; the earlier steps of the upload leave the slot
\* too and append no notice of an uploaded document.
C7_FailedUploadKeepsDocument ==
  [][ /\ (ev'.h = "uploadPDF.resume" /\ ~Succeeds(ev')) =>
           /\ currentPDF' = currentPDF
           /\ Grown /\ Len(New) = 1 /\ New[1].type = "error" /\ New[1].isBot
           /\ ~uploadingPDF' /\ ~isLoading' /\ uploadReq' = None
      /\ ev'.h \in {"pickPDF", "pickPDF.resume"} =>
           /\ currentPDF' = currentPDF
           /\ Grown
           /\ \A i \in 1..Len(New) : New[i].type \notin {"pdf", "pdf_analysis", "error"} ]_vars

\* an upload has failed while a document was active, which stays
C7_Witness ==
  /\ ev.h = "uploadPDF.resume" /\ ~Resolves(ev)
  /\ currentPDF # None
  /\ messages[Len(messages)].type = "error"

\* C8 as stated: a successful upload has appended the notice of the
\* document, the analysis if one was returned, and no other message.
C8_UploadAppendsOnlyNotices ==
  (ev.h = "uploadPDF.resume" /\ Succeeds(ev))
    => appended = 1 + (IF ev.out[1].data.analysis # None THEN 1 ELSE 0)

\* C8 amended: an upload appends one progress message when its call is
\* issued; when the call succeeds the step sets the slot to the name of the
\* file with the pages and size_kb of the response and appends the notice
\* of the document, then the analysis if and only if a non-empty one was
\* returned; the upload appends nothing else.
C8_UploadAppendsProgressAndNotices ==
  [][ /\ (ev'.h = "pickPDF.resume" /\ ev'.call # None) =>
           /\ Grown
           /\ New = <<NewMessage(<<"Subiendo PDF: ">> \o ev'.call[1].arg \o <<"...">>,
                                 TRUE, "pdf_upload")>>
           /\ appended' = 1
      /\ (ev'.h = "uploadPDF.resume" /\ Succeeds(ev')) =>
           LET data == ev'.out[1].data
               file == uploadReq[1].arg
           IN /\ currentPDF'[1].name = file
              /\ currentPDF'[1].pages = data.pages
              /\ currentPDF'[1].size_kb = data.size_kb
              /\ Grown
              /\ New[1] = UploadedNotice(file, data) /\ New[1].type = "pdf"
              /\ Len(New) = (IF TruthyStr(data.analysis) THEN 2 ELSE 1)
              /\ Len(New) = 2 => New[2] = AnalysisNotice(data.analysis[1])
              /\ appended' = 1 + Len(New) ]_vars

\* an upload has succeeded with an analysis: progress, notice, analysis
C8_Witness ==
  /\ ev.h = "uploadPDF.resume" /\ Succeeds(ev)
  /\ appended = 3
  /\ messages[Len(messages)].type = "pdf_analysis"

\* C9: with no active document and the server not known to be unreachable,
\* an accepted submission of text T appends the user's message T and issues
\* the one call sendMessage(T); a reply with success and a non-empty
\* response R appends the one message R of the assistant, of type text, and
\* clears isLoading.
C9_ChatRoundTrip ==
  [][ /\ (Accepted(ev') /\ currentPDF = None /\ isServerConnected # "false") =>
           /\ messages' = Append(messages, NewMessage(inputText, FALSE, "text"))
           /\ ev'.call = Some(Call("sendMessage", inputText))
           /\ chatReq' = ev'.call
           /\ isLoading'
      /\ (ev'.h = "handleNormalChat.resume" /\ Succeeds(ev')
            /\ TruthyStr(ev'.out[1].data.response)) =>
           /\ messages' = Append(messages,
                            NewMessage(ev'.out[1].data.response[1], TRUE, "text"))
           /\ ~isLoading' /\ ~uploadingPDF' /\ chatReq' = None ]_vars

\* a chat text has been answered
C9_Witness ==
  /\ ev.h = "handleNormalChat.resume" /\ Succeeds(ev)
  /\ messages[Len(messages)] = NewMessage(<<"Attention is...">>, TRUE, "text")
  /\ appended = 2 /\ ~isLoading

\* C10: when sendMessage returns a reply whose success is false or whose
\* response is missing or empty, the step appends the one message 'No recibi
\* una respuesta valida del servidor.', of type error, and clears isLoading.
C10_InvalidReply ==
  [][ (ev'.h = "handleNormalChat.resume" /\ Resolves(ev')
         /\ (~ev'.out[1].data.success \/ ~TruthyStr(ev'.out[1].data.response))) =>
        /\ messages' = Append(messages,
                         NewMessage(<<"No recibi una respuesta valida del servidor.">>,
                                    TRUE, "error"))
        /\ ~isLoading' /\ ~uploadingPDF' /\ chatReq' = None ]_vars

\* a reply with success false and a response text has been turned down
C10_Witness ==
  /\ ev.h = "handleNormalChat.resume" /\ Resolves(ev)
  /\ ~ev.out[1].data.success /\ TruthyStr(ev.out[1].data.response)
  /\ messages[Len(messages)].type = "error"

\* C11: when the call of a text submission or of an upload is rejected, the
\* step that resumes the handler appends exactly one message, of type error,
\* clears the pending flags, awaits nothing more and shows no Alert: the
\* Error goes no further than the catch of the handler.
C11_FailureBecomesOneError ==
  [][ (ev'.h \in {"handleNormalChat.resume", "handlePDFQuestion.resume", "uploadPDF.resume"}
         /\ ~Resolves(ev')) =>
        /\ Grown /\ Len(New) = 1
        /\ New[1].type = "error" /\ New[1].isBot
        /\ ~isLoading' /\ ~uploadingPDF'
        /\ chatReq' = None /\ uploadReq' = None
        /\ modal' = modal ]_vars

\* a chat call was rejected with a network error, and the transcript ends
\* with its one error message
C11_Witness ==
  /\ ev.h = "handleNormalChat.resume" /\ ~Resolves(ev)
  /\ messages[Len(messages)] =
       NewMessage(<<"Error: ", "Error de red. Verifica tu conexion.">>, TRUE, "error")
  /\ messages[Len(messages) - 1].type # "error"
  /\ ~isLoading

\* the calls issued by a user action that are awaited
Pending ==
  (IF chatReq # None THEN 1 ELSE 0) + (IF uploadReq # None THEN 1 ELSE 0) + clearReqs

\* the step is the one in which a confirmed clearChat, or a confirmed
\* clearPDF, takes effect
ClearTakesEffect(e) == e.h \in {"clearChat.resume", "clearPDF.onPress"}

\* C12 as stated: when the handler of a confirmed clearChat has run, whether
\* clearHistory returned or threw, the transcript is the one greeting, no
\* document is active and neither isLoading nor uploadingPDF is set.
C12_ClearChatEndsIdle ==
  ev.h = "clearChat.resume" =>
    /\ messages = <<ResetGreeting>>
    /\ currentPDF = None
    /\ ~isLoading /\ ~uploadingPDF

\* C13 as stated: clearChat and clearPDF take effect only when no call of a
\* text submission or of an upload is awaited, and a reply is never appended
\* to a transcript that was reset after its text was submitted: the
\* transcript a reply is appended to holds a message of the user.
C13_NoClearWhilePending ==
  /\ ClearTakesEffect(ev) => (chatReq = None /\ uploadReq = None)
  /\ ev.h \in {"handleNormalChat.resume", "handlePDFQuestion.resume"} =>
       \E i \in 1..Len(messages) : ~messages[i].isBot

\* C14 as stated: at most one call issued by a user action (sendMessage,
\* askPDF, uploadPDF, clearHistory) is awaited at any time.
C14_AtMostOnePending == Pending <= 1

\* C15: a touch on the X of the banner of the active document only opens the
\* Alert; 'Limpiar' clears the slot and appends the one notice 'PDF
\* eliminado...'; 'Cancelar' leaves the transcript and the slot; none of the
\* three issues a call.
C15_ClearPDFOnConfirmation ==
  [][ /\ ev'.h = "clearPDF" =>
           /\ currentPDF # None
           /\ messages' = messages /\ currentPDF' = currentPDF
           /\ modal' = "clearPDF" /\ NoNewCall
      /\ ev'.h = "clearPDF.onPress" =>
           /\ modal = "clearPDF"
           /\ currentPDF' = None
           /\ messages' = Append(messages,
                            NewMessage(<<"PDF eliminado. Puedes subir otro documento cuando quieras.">>,
                                       TRUE, "text"))
           /\ NoNewCall
      /\ (ev'.h = "alert.dismiss" /\ ev'.branch = "clearPDF") =>
           /\ messages' = messages /\ currentPDF' = currentPDF
           /\ NoNewCall ]_vars

\* the clearing of an active document was confirmed
C15_Witness ==
  /\ ev.h = "clearPDF.onPress"
  /\ currentPDF = None /\ ~uploaded
  /\ \E i \in 1..Len(messages) : messages[i].type = "pdf"
  /\ messages[Len(messages)].text =
       <<"PDF eliminado. Puedes subir otro documento cuando quieras.">>

\* C16: a submission of a text that is empty or all white space changes
\* nothing, in any state: not the transcript, the slot, the input field,
\* isLoading, uploadingPDF or isServerConnected; and it issues no call.
C16_BlankSubmitIsNoOp ==
  [][ (ev'.h = "sendMessage" /\ Trim(inputText) = <<>>) =>
        /\ messages' = messages /\ currentPDF' = currentPDF
        /\ inputText' = inputText
        /\ isLoading' = isLoading /\ uploadingPDF' = uploadingPDF
        /\ isServerConnected' = isServerConnected
        /\ NoNewCall ]_vars

\* a text of one space was submitted from the keyboard and turned down by
\* the guard of sendMessage
C16_Witness ==
  /\ ev.h = "sendMessage" /\ ev.branch = "blank"
  /\ inputText = <<" ">>
  /\ ~isLoading /\ ~uploadingPDF

\* C17: when the picker rejects with DOCUMENT_PICKER_CANCELED the step
\* appends no message, leaves the slot, issues no call, shows no Alert and
\* clears uploadingPDF.
C17_CancelledPickIsSilent ==
  [][ (ev'.h = "pickPDF.resume" /\ ~ev'.out[1].picked
         /\ ev'.out[1].code = "DOCUMENT_PICKER_CANCELED") =>
        /\ messages' = messages /\ currentPDF' = currentPDF
        /\ NoNewCall
        /\ modal' = "none"
        /\ ~uploadingPDF' /\ ~isLoading' ]_vars

\* a selection was cancelled while a document was active
C17_Witness ==
  /\ ev.h = "pickPDF.resume" /\ ev.out[1].code = "DOCUMENT_PICKER_CANCELED"
  /\ currentPDF # None
  /\ ~uploadingPDF /\ modal = "none"

\* C18 as stated: the completion of the health probe leaves the transcript
\* and the slot as they are.
C18_ProbeOnlySetsFlag ==
  [][ ev'.h = "checkServerConnection.resume" =>
        (messages' = messages /\ currentPDF' = currentPDF) ]_vars

\* C18 amended: the completion of the probe sets isServerConnected to true
\* if the status is healthy and to false otherwise, and appends the one
\* message of the assistant that tells which; it leaves the slot, the pending
\* flags and the calls awaited, also while a text submission is awaited.
C18_ProbeSetsFlagAndAppendsNotice ==
  [][ ev'.h = "checkServerConnection.resume" =>
        LET health == ev'.out[1]
            healthy == health.ok /\ health.data = <<"healthy">>
        IN /\ isServerConnected' = (IF healthy THEN "true" ELSE "false")
           /\ messages' = Append(messages,
                NewMessage(IF healthy
                             THEN <<"Servidor conectado. Puedes subir PDFs y usar todas las funcionalidades!">>
                             ELSE <<"Servidor no disponible. Para analizar PDFs, asegurate de que el servidor este corriendo.">>,
                           TRUE, "text"))
           /\ currentPDF' = currentPDF
           /\ isLoading' = isLoading /\ uploadingPDF' = uploadingPDF
           /\ chatReq' = chatReq /\ uploadReq' = uploadReq /\ clearReqs' = clearReqs ]_vars

\* the probe completed, with a status that is not healthy, while a chat call
\* was awaited: its message follows the one of the user
C18_Witness ==
  /\ ev.h = "checkServerConnection.resume"
  /\ ev.out[1].ok /\ ev.out[1].data = <<"degraded">>
  /\ isServerConnected = "false"
  /\ chatReq # None /\ isLoading
  /\ ~messages[Len(messages) - 1].isBot

\* C20: an accepted submission is made while no call of a submission is
\* awaited and issues one call, sendMessage or askPDF, or none, and none only
\* if isServerConnected is false; no other step issues such a call, and the
\* step that takes the outcome of the call, be it an Error or an empty reply,
\* issues none: the calls issued never outnumber the accepted submissions.
C20_OneCallPerSubmission ==
  [][ /\ Accepted(ev') =>
           /\ chatReq = None
           /\ chatReq' = ev'.call
           /\ ev'.call # None => ev'.call[1].op \in {"sendMessage", "askPDF"}
           /\ ev'.call = None => isServerConnected = "false"
      /\ (chatReq' # None /\ chatReq' # chatReq) => Accepted(ev')
      /\ (ev'.call # None /\ ev'.call[1].op \in {"sendMessage", "askPDF"}) => Accepted(ev')
      /\ ev'.h \in {"handleNormalChat.resume", "handlePDFQuestion.resume"} =>
           (chatReq' = None /\ ev'.call = None) ]_vars

\* after a reply that was an error, the user has submitted a text again and
\* its one call is awaited
C20_Witness ==
  /\ Accepted(ev) /\ ev.call # None /\ chatReq = ev.call
  /\ \E i \in 1..Len(messages) : messages[i].type = "error"

\* neither isLoading nor uploadingPDF is set
Idle == ~isLoading /\ ~uploadingPDF

\* C19: if every awaited call completes and the open picker closes, every
\* state in which a text was accepted, the PDF button was taken, or isLoading
\* or uploadingPDF is set, is followed by a state in which neither is set.
C19_AwaitingIsTransient ==
  (Accepted(ev) \/ (ev.h = "pickPDF" /\ ev.branch = "picker") \/ ~Idle) ~> Idle

\* the picker has rejected with an Error that is shown in an Alert, and
\* neither flag is set
C19_Witness ==
  /\ ev.h = "pickPDF.resume" /\ ev.out[1].code = "OTHER"
  /\ modal = "alert"
  /\ Idle /\ chatReq = None /\ uploadReq = None

\* the call was rejected because the server has no document: the server says
\* so in its detail, or the message of the Error does
NoDocumentLoaded(out) ==
  /\ ~out.ok
  /\ \/ out.error.detail = Some(<<"No PDF loaded">>)
     \/ Includes(out.error.message, <<"No", "PDF", "loaded">>)

\* C21 as stated: when askPDF is rejected because no document is loaded, the
\* message appended tells the user to upload a PDF first, it is not the
\* message of an error, and isLoading is cleared.
C21_NoDocumentGetsGuidance ==
  (ev.h = "handlePDFQuestion.resume" /\ NoDocumentLoaded(ev.out[1])) =>
    /\ Includes(messages[Len(messages)].text, <<"No hay PDF cargado. Primero sube un PDF.">>)
    /\ messages[Len(messages)].type # "error"
    /\ ~isLoading

\* the texts of the Errors uploadPDF throws for a payload that is too large,
\* for a format that is not supported, and for a timeout
PayloadTooLarge == <<"El PDF es demasiado grande. Intenta con un archivo mas pequeno.">>
UnsupportedFormat == <<"Formato de archivo no soportado. Asegurate de que sea un PDF valido.">>
UploadTimeout == <<"El PDF es demasiado grande o el servidor esta tardando demasiado.">>

\* C22 as stated: whatever the detail and the message of the rejection, an
\* upload rejected with status 413 is reported as too large, one rejected
\* with status 415 as a format that is not supported, a timeout as too large
\* or a busy server, and any other rejection as none of the three.
C22_UploadFailureCauses ==
  (ev.h = "uploadPDF.resume" /\ ~Resolves(ev)) =>
    LET error == ev.out[1].error
        said == messages[Len(messages)].text
        cause == IF error.status = Some(413) THEN PayloadTooLarge
                 ELSE IF error.status = Some(415) THEN UnsupportedFormat
                 ELSE IF Includes(error.message, <<"timeout">>) THEN UploadTimeout
                 ELSE <<>>
    IN IF cause # <<>>
       THEN said = <<"Error subiendo PDF: ">> \o cause
       ELSE \A text \in {PayloadTooLarge, UnsupportedFormat, UploadTimeout} :
              ~Includes(said, text)

\* C23: checkHealth throws nothing and returns true exactly when GET /health
\* answers with the status healthy: when the probe has completed,
\* isServerConnected is true for that answer and false for any other status
\* and for any rejection, and the message is not the one of the catch of
\* checkServerConnection.
C23_CheckHealthNeverThrows ==
  ev.h = "checkServerConnection.resume" =>
    LET health == ev.out[1] IN
    /\ ~checkHealthThrows(health)
    /\ checkHealth(health) = (health.ok /\ health.data = <<"healthy">>)
    /\ isServerConnected = (IF health.ok /\ health.data = <<"healthy">> THEN "true" ELSE "false")
    /\ \A i \in 1..Len(messages) :
         messages[i].text # <<"No se pudo conectar con el servidor. Usando modo local.">>

\* the probe was answered by the timeout, and the flag is false
C23_Witness ==
  /\ ev.h = "checkServerConnection.resume"
  /\ ~ev.out[1].ok /\ ev.out[1] = [ok |-> FALSE, data |-> <<>>, error |-> TimeoutError("10000ms")]
  /\ isServerConnected = "false"
  /\ messages[Len(messages)].text =
       <<"Servidor no disponible. Para analizar PDFs, asegurate de que el servidor este corriendo.">>

\* C24 as stated: no two messages of the transcript have the same id.
C24_DistinctIds ==
  \A i, j \in 1..Len(messages) : i # j => messages[i].id # messages[j].id

\* C25: isLoading and uploadingPDF are never both true: while an answer is
\* awaited the PDF button is disabled, and while the picker or an upload is
\* awaited the send button is disabled and the input is not editable.
C25_PendingFlagsExclusive == ~(isLoading /\ uploadingPDF)

\* a tap on the PDF button while an answer is awaited does nothing
C25_Witness ==
  ev.h = "pickPDF" /\ ev.branch = "disabled" /\ isLoading /\ ~uploadingPDF

\* the calls that isServerConnected gates
GatedCalls == {"sendMessage", "askPDF", "uploadPDF"}

\* isServerConnected changes only from null, and only in the step that takes
\* the outcome of the probe started at the mount
FlagWrittenByProbeOnly ==
  [][isServerConnected' # isServerConnected =>
       (isServerConnected = "null" /\ ev'.h = "checkServerConnection.resume")]_vars

\* while isServerConnected is true every accepted submission and every
\* picked file issues its call
NeverGatedOnceTrue ==
  [][isServerConnected = "true" =>
       /\ Accepted(ev') => ev'.call # None
       /\ (ev'.h = "pickPDF.resume" /\ ev'.out[1].picked) => ev'.call # None]_vars

\* C26 as stated: isServerConnected is written by the probe of the mount
\* alone and changes at most once, from null; once it is false no step issues
\* a sendMessage, askPDF or uploadPDF call; while it is true every accepted
\* submission and every picked file issues its call.
C26_FlagGatesCalls ==
  [][ /\ isServerConnected' # isServerConnected =>
           (isServerConnected = "null" /\ ev'.h = "checkServerConnection.resume")
      /\ (isServerConnected = "false" /\ ev'.call # None) =>
           ev'.call[1].op \notin GatedCalls
      /\ isServerConnected = "true" =>
           /\ Accepted(ev') => ev'.call # None
           /\ (ev'.h = "pickPDF.resume" /\ ev'.out[1].picked) => ev'.call # None ]_vars

====
